---- MODULE Spec2Model ----
(***************************************************************************)
(* LUL Layout Manager (src/LUL_Layout_Manager.py): the layout document,    *)
(* the drag protocol, the undo/redo history and the property editor, as a  *)
(* state machine.  Every handler of the program is an operator from a      *)
(* program state (a record) to the program state it leaves; the actions    *)
(* apply the handlers to the current state with inputs drawn from small    *)
(* sets.                                                                   *)
(***************************************************************************)
EXTENDS Integers, Sequences, FiniteSets, TLC

\* ---------------------------------------------------------------- constants
GRID_SIZE == 20

\* ------------------------------------------------------------------- bounds
\* DraggableWidget objects that exist at one time
MaxObjs == 2
\* length of undo_stack at which no further command is recorded
MaxHist == 3
\* the part of the canvas widgets and canvas items stay in
MaxX == 20
MaxY == 20
\* PropertyEditor windows open at one time
MaxEditors == 1
\* the raw coordinates snap is applied to: -MaxV..MaxV
MaxV == 60
\* the part of the canvas the button-and-label session stays in
MaxScen == 100
\* the number of items the canvas creates in the item-id specification
MaxItems == 4

None == 0
ObjIds == 1..MaxObjs

\* the toolbox buttons pressed (some of SUPPORTED_WIDGETS)
ToolboxTypes == {"Button"}
ToolboxTypes2 == {"Button", "Label"}
\* raw canvas coordinates of a placing click
PlaceCoords == {<<23, 17>>}
PlaceCoords2 == {<<23, 17>>, <<8, 3>>}
\* widget-relative pointer coordinates of a pointer-down
PressCoords == {<<5, 3>>}
\* pointer coordinates reported by pointer-moves
MoveCoords == {<<5, 3>>, <<20, 18>>, <<-10, -12>>}
\* what is typed into the property editor: the property and the entry text
PropEdits == { <<"text", <<"O", "K">> >> }
PropEdits2 ==
    { <<"x", <<"1", "3">> >>, <<"x", <<"a">> >>, <<"y", <<"2", "0">> >>,
      <<"text", <<"O", "K">> >> }

VARIABLES
    active_widget,  \* GUIBuilder.active_widget: the armed type, or "None"
    widgets,        \* GUIBuilder.widgets: sequence of object ids
    current_file,   \* GUIBuilder.current_file: a path, or "None"
    undo_stack,     \* GUIBuilder.undo_stack: sequence of commands
    redo_stack,     \* GUIBuilder.redo_stack
    dw,             \* the DraggableWidget objects, by object id
    editors,        \* the objects a PropertyEditor with its rows is open on
    stacking,       \* the toolkit's stacking order of the canvas's child windows
    drag,           \* the pointer's grab: the widget between pointer-down and pointer-up
    g_undo,         \* history of the reference document (history refinement only)
    g_redo,
    probe,          \* a function applied on its own: its argument and its results
    disk,           \* the layout file save_project has written, or NoFile
    item_id,        \* DraggableWidget.id by object id: its canvas item id (0: none)
    last_item       \* the last item id the canvas has handed out

vars == <<active_widget, widgets, current_file, undo_stack, redo_stack, dw,
          editors, stacking, drag, g_undo, g_redo, probe, disk, item_id, last_item>>

\* ------------------------------------------------------------------ helpers
Range(q) == {q[i] : i \in 1..Len(q)}

Front(q) == SubSeq(q, 1, Len(q) - 1)

Last(q) == q[Len(q)]

\* list.remove(e): drops the first occurrence; a list without e is left as
\* it is (the ValueError ends the handler)
FirstIndex(q, e) == CHOOSE i \in 1..Len(q) : q[i] = e /\ \A j \in 1..(i - 1) : q[j] # e

Remove(q, e) ==
    IF e \in Range(q)
    THEN SubSeq(q, 1, FirstIndex(q, e) - 1) \o SubSeq(q, FirstIndex(q, e) + 1, Len(q))
    ELSE q

\* round(v / g): Python 3 rounds a tie to the even neighbour
py_round_div(v, g) ==
    LET q == v \div g
        r == v % g
    IN  IF 2 * r < g THEN q
        ELSE IF 2 * r > g THEN q + 1
        ELSE IF q % 2 = 0 THEN q ELSE q + 1

\* fault: round(v / GRID_SIZE) not multiplied back by GRID_SIZE
snap_not_scaled(v) == py_round_div(v, GRID_SIZE)

snap(v) == py_round_div(v, GRID_SIZE) * GRID_SIZE

\* int(text) of the decimal digits typed; anything else raises ValueError
DigitChars == {"0", "1", "2", "3", "4", "5", "6", "7", "8", "9"}

DigitVal(c) ==
    CASE c = "0" -> 0 [] c = "1" -> 1 [] c = "2" -> 2 [] c = "3" -> 3
      [] c = "4" -> 4 [] c = "5" -> 5 [] c = "6" -> 6 [] c = "7" -> 7
      [] c = "8" -> 8 [] c = "9" -> 9

is_int(t) == Len(t) > 0 /\ \A i \in 1..Len(t) : t[i] \in DigitChars

RECURSIVE int(_)
int(t) == IF Len(t) = 0 THEN 0 ELSE 10 * int(Front(t)) + DigitVal(Last(t))

\* ----------------------------------------------------------- program state
\* a free object slot: no DraggableWidget lives there
Blank ==
    [widget_type |-> "None", x |-> 0, y |-> 0, original_x |-> 0, original_y |-> 0,
     start_x |-> 0, start_y |-> 0, selected |-> FALSE,
     alive |-> FALSE, item |-> FALSE, cx |-> 0, cy |-> 0, text |-> <<>>]

\* the text a freshly built toolkit widget shows
DefaultText(t) ==
    CASE t = "Button" -> <<"B", "u", "t", "t", "o", "n">>
      [] t = "Label" -> <<"L", "a", "b", "e", "l">>
      [] OTHER -> <<>>

St ==
    [active_widget |-> active_widget, widgets |-> widgets,
     current_file |-> current_file, undo_stack |-> undo_stack,
     redo_stack |-> redo_stack, dw |-> dw, editors |-> editors,
     stacking |-> stacking]

\* the objects something still refers to
Refs(s) ==
    Range(s.widgets) \cup {s.undo_stack[i].dw : i \in 1..Len(s.undo_stack)}
        \cup {s.redo_stack[i].dw : i \in 1..Len(s.redo_stack)} \cup s.editors

FreeObjs(s) == ObjIds \ Refs(s)

NewObj(s) == CHOOSE o \in FreeObjs(s) : \A p \in FreeObjs(s) : o <= p

\* objects nothing refers to are collected
collect(s) ==
    [s EXCEPT !.dw = [o \in ObjIds |-> IF o \in Refs(s) THEN s.dw[o] ELSE Blank]]

\* start_x, start_y, original_x and original_y are read by on_drag and
\* on_release only, which the toolkit delivers to the widget the pointer went
\* down on, after on_start has written all four: outside its own drag a
\* widget's four values are never read again, and the state does not keep them
forget(s, dragged) ==
    [s EXCEPT !.dw = [o \in ObjIds |->
        IF o = dragged THEN s.dw[o]
        ELSE [s.dw[o] EXCEPT !.start_x = 0, !.start_y = 0,
                             !.original_x = 0, !.original_y = 0]]]

\* a command tuple; ident stands for the tuple object's identity.  The two
\* stacks hold one timeline, undo_stack followed by redo_stack reversed, and
\* a push discards the redo part: the new tuple is named by its place in it
NewIdent(s) == Len(s.undo_stack) + 1

Cmd(s, kind, o, old_x, old_y) ==
    [kind |-> kind, dw |-> o, old_x |-> old_x, old_y |-> old_y, ident |-> NewIdent(s)]

\* ------------------------------------------------------------ canvas calls
\* canvas.delete(dw.id): the item and its coordinates are gone
canvas_delete(s, o) == [s EXCEPT !.dw[o].item = FALSE, !.dw[o].cx = 0, !.dw[o].cy = 0]

\* dw.widget.destroy(): the toolkit widget and its options are gone
destroy(s, o) ==
    [s EXCEPT !.dw[o].alive = FALSE, !.dw[o].text = <<>>,
              !.stacking = Remove(@, o)]

\* canvas.tag_raise(dw.id), canvas.tag_lower(dw.id): the item of an embedded
\* window is not restacked by the canvas; the window keeps its place in the
\* toolkit's stacking order
tag_raise(s, o) == s

tag_lower(s, o) == s

\* canvas.move(dw.id, dx, dy): moves the item when there is one
canvas_move(s, o, dx, dy) ==
    IF s.dw[o].item
    THEN [s EXCEPT !.dw[o].cx = @ + dx, !.dw[o].cy = @ + dy]
    ELSE s

\* dw.id = canvas.create_window(dw.x, dw.y, window=dw.widget): the toolkit
\* refuses a destroyed window (TclError), and dw.id keeps its old value
create_window(s, o) ==
    IF s.dw[o].alive
    THEN [s EXCEPT !.dw[o].item = TRUE, !.dw[o].cx = s.dw[o].x, !.dw[o].cy = s.dw[o].y]
    ELSE s

\* ------------------------------------------------------------ GUIBuilder
\* fault: push_undo without "self.redo_stack = []"
push_undo_keeps_redo(s, action) ==
    [s EXCEPT !.undo_stack = Append(@, action)]

push_undo(s, action) ==
    [s EXCEPT !.undo_stack = Append(@, action), !.redo_stack = <<>>]

select_widget(s, t) == [s EXCEPT !.active_widget = t]

\* DraggableWidget.__init__ on a fresh toolkit widget
NewWidget(t, x, y) ==
    [widget_type |-> t, x |-> x, y |-> y, original_x |-> x, original_y |-> y,
     start_x |-> 0, start_y |-> 0, selected |-> FALSE,
     alive |-> TRUE, item |-> TRUE, cx |-> x, cy |-> y, text |-> DefaultText(t)]

SUPPORTED_WIDGETS ==
    {"Button", "Label", "Entry", "Text", "Checkbutton", "Radiobutton", "Scale",
     "Listbox", "Scrollbar", "Frame", "LabelFrame", "Combobox", "Progressbar"}

\* fault: place_widget without "self.active_widget = None"
place_widget_stays_armed(s, x, y) ==
    IF s.active_widget = "None" THEN s
    ELSE IF s.active_widget \notin SUPPORTED_WIDGETS THEN s
    ELSE LET o == NewObj(s)
             s1 == [s EXCEPT !.dw[o] = NewWidget(s.active_widget, snap(x), snap(y)),
                             !.stacking = Append(@, o),
                             !.widgets = Append(@, o)]
         IN  push_undo(s1, Cmd(s1, "create", o, 0, 0))

place_widget(s, x, y) ==
    IF s.active_widget = "None" THEN s
    ELSE IF s.active_widget \notin SUPPORTED_WIDGETS THEN s
    ELSE LET o == NewObj(s)
             s1 == [s EXCEPT !.dw[o] = NewWidget(s.active_widget, snap(x), snap(y)),
                             !.stacking = Append(@, o),
                             !.widgets = Append(@, o)]
             s2 == push_undo(s1, Cmd(s1, "create", o, 0, 0))
         IN  [s2 EXCEPT !.active_widget = "None"]

\* a click on the canvas itself; the pointer over a widget's window sends the
\* event to that widget, so no "widget" item is ever the current item here
canvas_click(s, x, y) ==
    IF s.active_widget # "None" THEN place_widget(s, x, y) ELSE s

\* ------------------------------------------------------- DraggableWidget
select(s, o) == tag_raise([s EXCEPT !.dw[o].selected = TRUE], o)

\* fault: on_start without "self.original_x = self.x; self.original_y = self.y"
on_start_keeps_original(s, o, ex, ey) ==
    select([s EXCEPT !.dw[o].start_x = ex, !.dw[o].start_y = ey], o)

on_start(s, o, ex, ey) ==
    select([s EXCEPT !.dw[o].start_x = ex, !.dw[o].start_y = ey,
                     !.dw[o].original_x = s.dw[o].x,
                     !.dw[o].original_y = s.dw[o].y], o)

\* the position a pointer-move puts the widget at
drag_target(d, ex, ey) ==
    <<snap(d.x + (ex - d.start_x)), snap(d.y + (ey - d.start_y))>>

on_drag(s, o, ex, ey) ==
    LET d == s.dw[o]
        new == drag_target(d, ex, ey)
        dx == new[1] - d.x
        dy == new[2] - d.y
    IN  IF dx # 0 \/ dy # 0
        THEN [canvas_move(s, o, dx, dy) EXCEPT !.dw[o].x = new[1], !.dw[o].y = new[2]]
        ELSE s

on_release(s, o) ==
    LET d == s.dw[o]
    IN  IF <<d.x, d.y>> # <<d.original_x, d.original_y>>
        THEN push_undo(s, Cmd(s, "move", o, d.original_x, d.original_y))
        ELSE s

show_context_menu(s, o) == select(s, o)

\* PropertyEditor.load_properties: text, bg, fg, width and height are read
\* from the toolkit widget with cget, and the rows are inserted after all of
\* them are read.  readable: the widget answers all five; when one raises
\* TclError the editor has no row to select, and its update_property returns
\* before it reads anything
load_properties(s, o, readable) ==
    IF readable THEN [s EXCEPT !.editors = @ \cup {o}] ELSE s

\* DraggableWidget.delete, the context menu's Delete
delete(s, o) == destroy(canvas_delete(s, o), o)

bring_to_front(s, o) == tag_raise(s, o)

send_to_back(s, o) == tag_lower(s, o)

edit_properties(s, o, readable) == load_properties(s, o, readable)

\* -------------------------------------------------------- PropertyEditor
update_property(s, o, prop, new_value) ==
    IF prop = "x"
    THEN IF is_int(new_value)
         THEN [canvas_move(s, o, int(new_value) - s.dw[o].x, 0)
                  EXCEPT !.dw[o].x = int(new_value)]
         ELSE s
    ELSE IF prop = "y"
    THEN IF is_int(new_value)
         THEN [canvas_move(s, o, 0, int(new_value) - s.dw[o].y)
                  EXCEPT !.dw[o].y = int(new_value)]
         ELSE s
    ELSE IF s.dw[o].alive
         THEN [s EXCEPT !.dw[o].text = new_value]
         ELSE s

\* ------------------------------------------------------- delete, history
RECURSIVE delete_each(_, _)
delete_each(s, sel) ==
    IF sel = <<>> THEN s
    ELSE LET o == Head(sel)
             s1 == push_undo(s, Cmd(s, "delete", o, 0, 0))
             s2 == destroy(canvas_delete(s1, o), o)
         IN  delete_each([s2 EXCEPT !.widgets = Remove(@, o)], Tail(sel))

delete_selected(s) ==
    delete_each(s, SelectSeq(s.widgets, LAMBDA o : s.dw[o].selected))

\* the position redo() of a move leaves the widget at
redo_move_pos(d, action) == <<action.old_x, action.old_y>>

\* fault: undo reading the top of undo_stack without popping it
pop_undo_keeps_top(s) ==
    [s EXCEPT !.redo_stack = Append(@, Last(s.undo_stack))]

\* action = self.undo_stack.pop(); self.redo_stack.append(action)
pop_undo(s) ==
    [s EXCEPT !.undo_stack = Front(@), !.redo_stack = Append(@, Last(s.undo_stack))]

\* action = self.redo_stack.pop(); self.undo_stack.append(action)
pop_redo(s) ==
    [s EXCEPT !.redo_stack = Front(@), !.undo_stack = Append(@, Last(s.redo_stack))]

\* fault: undo that, finding undo_stack empty, discards redo_stack
undo_empty_clears_redo(s) ==
    IF s.undo_stack = <<>> THEN [s EXCEPT !.redo_stack = <<>>] ELSE pop_undo(s)

undo(s) ==
    IF s.undo_stack = <<>> THEN s
    ELSE LET action == Last(s.undo_stack)
             o == action.dw
             s1 == pop_undo(s)
         IN  IF action.kind = "create"
             THEN LET s2 == destroy(canvas_delete(s1, o), o)
                  IN  [s2 EXCEPT !.widgets = Remove(@, o)]
             ELSE IF action.kind = "delete"
             THEN create_window([s1 EXCEPT !.widgets = Append(@, o)], o)
             ELSE LET dx == action.old_x - s1.dw[o].x
                      dy == action.old_y - s1.dw[o].y
                  IN  [canvas_move(s1, o, dx, dy)
                          EXCEPT !.dw[o].x = action.old_x, !.dw[o].y = action.old_y]

redo(s) ==
    IF s.redo_stack = <<>> THEN s
    ELSE LET action == Last(s.redo_stack)
             o == action.dw
             s1 == pop_redo(s)
         IN  IF action.kind = "create"
             THEN create_window([s1 EXCEPT !.widgets = Append(@, o)], o)
             ELSE IF action.kind = "delete"
             THEN LET s2 == destroy(canvas_delete(s1, o), o)
                  IN  [s2 EXCEPT !.widgets = Remove(@, o)]
             ELSE LET dx == s1.dw[o].x - action.old_x
                      dy == s1.dw[o].y - action.old_y
                      pos == redo_move_pos(s1.dw[o], action)
                  IN  [canvas_move(s1, o, dx, dy)
                          EXCEPT !.dw[o].x = pos[1], !.dw[o].y = pos[2]]

\* ----------------------------------------------------------- new project
RECURSIVE destroy_each(_, _)
destroy_each(s, q) ==
    IF q = <<>> THEN s
    ELSE destroy_each(destroy(canvas_delete(s, Head(q)), Head(q)), Tail(q))

\* fault: clear_canvas without "self.undo_stack = []" and "self.redo_stack = []"
clear_canvas_keeps_history(s) ==
    [destroy_each(s, s.widgets) EXCEPT !.widgets = <<>>]

\* fault: clear_canvas without "self.redo_stack = []"
clear_canvas_keeps_redo(s) ==
    [destroy_each(s, s.widgets) EXCEPT !.widgets = <<>>, !.undo_stack = <<>>]

clear_canvas(s) ==
    [destroy_each(s, s.widgets)
        EXCEPT !.widgets = <<>>, !.undo_stack = <<>>, !.redo_stack = <<>>]

\* answer: what the user says to "Current project will be lost. Continue?"
new_project(s, answer) ==
    IF s.widgets # <<>> /\ ~answer THEN s
    ELSE [clear_canvas(s) EXCEPT !.current_file = "None"]

\* ------------------------------------------------------------ layout files
\* the types whose toolkit widget has a text option
HasText(t) == t \in {"Button", "Label", "Checkbutton", "Radiobutton", "LabelFrame"}

\* What json.load gives for a layout file: parsed is FALSE when the file
\* cannot be opened or is not JSON; keys are the keys of the top-level object;
\* each element of widgets has the keys in its own keys, and pkeys are the keys
\* of its properties.  JSON keeps integers and strings as they are written.
NoFile == [parsed |-> FALSE, keys |-> {}, widgets |-> <<>>]

WidgetData(t, x, y, text) ==
    [keys |-> {"type", "x", "y", "properties"}, type |-> t, x |-> x, y |-> y,
     pkeys |-> {"text", "width", "height", "background", "foreground"},
     text |-> text]

\* _save_to_file: the data written.  keys() and cget() on a destroyed toolkit
\* widget raise TclError, which the handler catches before it opens the file:
\* nothing is written
saved_data(s) ==
    [parsed |-> TRUE, keys |-> {"version", "widgets"},
     widgets |-> [i \in 1..Len(s.widgets) |->
        LET d == s.dw[s.widgets[i]]
        IN  WidgetData(d.widget_type, d.x, d.y,
                       IF HasText(d.widget_type) THEN d.text ELSE <<>>)]]

save_raises(s) == \E o \in Range(s.widgets) : ~s.dw[o].alive

\* the file after _save_to_file, old being the file before it
_save_to_file(s, old) == IF save_raises(s) THEN old ELSE saved_data(s)

\* save_project, the dialog answering path ("None": cancelled)
save_project(s, path) ==
    IF s.current_file # "None" THEN s
    ELSE IF path = "None" THEN s
    ELSE [s EXCEPT !.current_file = path]

\* load_widget past its three reads: arm the type, place, then configure the
\* last widget of the list with the record's properties
load_widget(s, r) ==
    LET s1 == place_widget([s EXCEPT !.active_widget = r.type], r.x, r.y)
    IN  IF s1.widgets # <<>> /\ "properties" \in r.keys /\ "text" \in r.pkeys
           /\ s1.dw[Last(s1.widgets)].alive
           /\ HasText(s1.dw[Last(s1.widgets)].widget_type)
        THEN [s1 EXCEPT !.dw[Last(s1.widgets)].text = r.text]
        ELSE s1

\* for widget_data in data['widgets']: a record without type, x or y raises
\* KeyError, which ends the loop with the widgets loaded so far in place
RECURSIVE load_each(_, _)
load_each(s, recs) ==
    IF recs = <<>> THEN s
    ELSE IF ~({"type", "x", "y"} \subseteq Head(recs).keys) THEN s
    ELSE load_each(load_widget(s, Head(recs)), Tail(recs))

\* fault: open_project with clear_canvas and the assignment of current_file
\* before the file is read
open_project_clears_first(s, path, data) ==
    IF path = "None" THEN s
    ELSE LET s1 == [clear_canvas(s) EXCEPT !.current_file = path]
         IN  IF ~data.parsed THEN s1
             ELSE IF "widgets" \in data.keys THEN load_each(s1, data.widgets) ELSE s1

\* open_project, the dialog answering path ("None": cancelled), the file
\* holding data
open_project(s, path, data) ==
    IF path = "None" THEN s
    ELSE IF ~data.parsed THEN s
    ELSE LET s1 == [clear_canvas(s) EXCEPT !.current_file = path]
         IN  IF "widgets" \in data.keys THEN load_each(s1, data.widgets) ELSE s1

\* ------------------------------------------------------- generated source
\* the lines generate_python_code appends for widget i of the list; a line is
\* kept as its parts
Construct(i, class, text) ==
    [stmt |-> "construct", var |-> i, class |-> class, text |-> text, x |-> 0, y |-> 0]

Place(i, x, y) ==
    [stmt |-> "place", var |-> i, class |-> "", text |-> <<>>, x |-> x, y |-> y]

EmptyLine == [stmt |-> "", var |-> 0, class |-> "", text |-> <<>>, x |-> 0, y |-> 0]

widget_lines(i, d) ==
    (IF d.widget_type = "Button" THEN <<Construct(i, "ttk.Button", d.text)>>
     ELSE IF d.widget_type = "Label" THEN <<Construct(i, "ttk.Label", d.text)>>
     ELSE IF d.widget_type = "Entry" THEN <<Construct(i, "ttk.Entry", <<>>)>>
     ELSE <<>>)
        \o <<Place(i, d.x, d.y), EmptyLine>>

RECURSIVE lines_from(_, _)
lines_from(s, i) ==
    IF i > Len(s.widgets) THEN <<>>
    ELSE widget_lines(i - 1, s.dw[s.widgets[i]]) \o lines_from(s, i + 1)

\* keys() on the destroyed toolkit widget of a Button or a Label raises
\* TclError out of generate_python_code
generate_raises(s) ==
    \E o \in Range(s.widgets) :
        s.dw[o].widget_type \in {"Button", "Label"} /\ ~s.dw[o].alive

\* the lines between the prologue and the epilogue, when none raises
generate_python_code(s) ==
    [raised |-> generate_raises(s),
     code |-> IF generate_raises(s) THEN <<>> ELSE lines_from(s, 1)]

\* -------------------------------------------------------------- actions
NoDrag == [w |-> None, px |-> 0, py |-> 0]

\* the program's variables take the state a handler left, and the grab is d
Sets(s, d) ==
    LET c == forget(collect(s), d.w)
    IN  /\ active_widget' = c.active_widget
        /\ widgets' = c.widgets
        /\ current_file' = c.current_file
        /\ undo_stack' = c.undo_stack
        /\ redo_stack' = c.redo_stack
        /\ dw' = c.dw
        /\ editors' = c.editors
        /\ stacking' = c.stacking
        /\ drag' = d
        /\ probe' = probe

\* ... and the file on disk stays as it is
Becomes(s, d) == Sets(s, d) /\ disk' = disk

\* a destroyed widget gets no further pointer events, which ends its drag
KeepDrag(s) ==
    IF drag.w # None /\ ~s.dw[drag.w].alive THEN NoDrag ELSE drag

\* a widget the pointer can reach: its window is shown on the canvas
Shown(o) == dw[o].alive /\ dw[o].item

\* the bound on coordinates: every widget and every canvas item stays within
\* the part of the canvas the model covers
InCanvas(s, mx, my) ==
    \A o \in ObjIds :
        /\ s.dw[o].x \in 0..mx /\ s.dw[o].y \in 0..my
        /\ s.dw[o].cx \in 0..mx /\ s.dw[o].cy \in 0..my

\* the records of data that load_widget builds a widget for
Built(data) ==
    IF data.parsed /\ "widgets" \in data.keys
    THEN {i \in 1..Len(data.widgets) :
            /\ \A j \in 1..i : {"type", "x", "y"} \subseteq data.widgets[j].keys
            /\ data.widgets[i].type \in SUPPORTED_WIDGETS}
    ELSE {}

\* <Control-o>, File > Open: the dialog's answer and the file it names
OpenProjectA(paths, files, mx, my) ==
    \E path \in paths, data \in files \cup {disk} :
        /\ drag.w = None
        /\ Cardinality(Built(data)) <= Cardinality(ObjIds \ editors)
        /\ Cardinality(Built(data)) <= MaxHist
        /\ InCanvas(open_project(St, path, data), mx, my)
        /\ Becomes(open_project(St, path, data), drag)

\* <Control-s>, File > Save: written to current_file, or to the dialog's answer
SaveProjectA(paths) ==
    \E path \in paths :
        /\ drag.w = None
        /\ Sets(save_project(St, path), drag)
        /\ disk' = IF save_project(St, path).current_file # "None"
                   THEN _save_to_file(St, disk)
                   ELSE disk

\* a toolbox button
SelectWidgetA(types) ==
    \E t \in types :
        /\ drag.w = None
        /\ Becomes(select_widget(St, t), drag)

\* <Button-1> on the canvas
CanvasClickA(coords) ==
    \E c \in coords :
        /\ drag.w = None
        /\ active_widget # "None" => FreeObjs(St) # {} /\ Len(undo_stack) < MaxHist
        /\ Becomes(canvas_click(St, c[1], c[2]), drag)

\* <ButtonPress-1> on a widget; px, py: where the widget is at pointer-down
OnStartA(coords) ==
    \E o \in ObjIds, c \in coords :
        /\ drag.w = None
        /\ Shown(o)
        /\ Becomes(on_start(St, o, c[1], c[2]),
                   [w |-> o, px |-> dw[o].x, py |-> dw[o].y])

\* <B1-Motion>
OnDragA(coords, mx, my) ==
    \E c \in coords :
        /\ drag.w # None
        /\ InCanvas(on_drag(St, drag.w, c[1], c[2]), mx, my)
        /\ Becomes(on_drag(St, drag.w, c[1], c[2]), drag)

\* <ButtonRelease-1>
OnReleaseA ==
    /\ drag.w # None
    /\ Len(on_release(St, drag.w).undo_stack) <= MaxHist
    /\ Becomes(on_release(St, drag.w), NoDrag)

\* <Delete>, Edit > Delete
DeleteSelectedA ==
    /\ Len(delete_selected(St).undo_stack) <= MaxHist
    /\ Becomes(delete_selected(St), KeepDrag(delete_selected(St)))

\* <Control-z>, Edit > Undo
UndoA(mx, my) ==
    /\ InCanvas(undo(St), mx, my)
    /\ Becomes(undo(St), KeepDrag(undo(St)))

\* <Control-y>, Edit > Redo
RedoA(mx, my) ==
    /\ InCanvas(redo(St), mx, my)
    /\ Becomes(redo(St), KeepDrag(redo(St)))

\* <Button-3> on a widget, the menu dismissed
ShowContextMenuA ==
    \E o \in ObjIds :
        /\ drag.w = None
        /\ Shown(o)
        /\ Becomes(show_context_menu(St, o), drag)

\* <Button-3> on a widget, then Delete
ContextDeleteA ==
    \E o \in ObjIds :
        /\ drag.w = None
        /\ Shown(o)
        /\ Becomes(delete(show_context_menu(St, o), o), drag)

\* <Button-3> on a widget, then Bring to Front
BringToFrontA ==
    \E o \in ObjIds :
        /\ drag.w = None
        /\ Shown(o)
        /\ Becomes(bring_to_front(show_context_menu(St, o), o), drag)

\* <Button-3> on a widget, then Send to Back
SendToBackA ==
    \E o \in ObjIds :
        /\ drag.w = None
        /\ Shown(o)
        /\ Becomes(send_to_back(show_context_menu(St, o), o), drag)

\* <Button-3> on a widget, then Properties
EditPropertiesA ==
    \E o \in ObjIds, readable \in BOOLEAN :
        /\ drag.w = None
        /\ Shown(o)
        /\ Cardinality(editors \cup {o}) <= MaxEditors
        /\ Becomes(edit_properties(show_context_menu(St, o), o, readable), drag)

\* the editor's Update button
UpdatePropertyA(edits, mx, my) ==
    \E o \in editors, e \in edits :
        /\ drag.w = None
        /\ InCanvas(update_property(St, o, e[1], e[2]), mx, my)
        /\ Becomes(update_property(St, o, e[1], e[2]), drag)

\* the editor window closed
CloseEditorA ==
    \E o \in editors :
        /\ drag.w = None
        /\ Becomes([St EXCEPT !.editors = @ \ {o}], drag)

\* <Control-n>, File > New
NewProjectA ==
    \E answer \in BOOLEAN :
        /\ drag.w = None
        /\ Becomes(new_project(St, answer), drag)

\* ------------------------------------------------------------- the program
InitP ==
    /\ active_widget = "None"
    /\ widgets = <<>>
    /\ current_file = "None"
    /\ undo_stack = <<>>
    /\ redo_stack = <<>>
    /\ dw = [o \in ObjIds |-> Blank]
    /\ editors = {}
    /\ stacking = <<>>
    /\ drag = NoDrag

NoProbe == [arg |-> 0, applied |-> FALSE, out |-> 0, again |-> 0]

Init ==
    /\ InitP
    /\ g_undo = <<>>
    /\ g_redo = <<>>
    /\ probe = NoProbe
    /\ disk = NoFile
    /\ item_id = [o \in ObjIds |-> 0]
    /\ last_item = 0

NoRef == UNCHANGED <<g_undo, g_redo>>

NoIds == UNCHANGED <<item_id, last_item>>

SelectWidget == SelectWidgetA(ToolboxTypes) /\ NoRef /\ NoIds
CanvasClick == CanvasClickA(PlaceCoords) /\ NoRef /\ NoIds
OnStart == OnStartA(PressCoords) /\ NoRef /\ NoIds
OnDrag == OnDragA(MoveCoords, MaxX, MaxY) /\ NoRef /\ NoIds
OnRelease == OnReleaseA /\ NoRef /\ NoIds
DeleteSelected == DeleteSelectedA /\ NoRef /\ NoIds
Undo == UndoA(MaxX, MaxY) /\ NoRef /\ NoIds
Redo == RedoA(MaxX, MaxY) /\ NoRef /\ NoIds
ShowContextMenu == ShowContextMenuA /\ NoRef /\ NoIds
ContextDelete == ContextDeleteA /\ NoRef /\ NoIds
EditProperties == EditPropertiesA /\ NoRef /\ NoIds
UpdateProperty == UpdatePropertyA(PropEdits, MaxX, MaxY) /\ NoRef /\ NoIds
CloseEditor == CloseEditorA /\ NoRef /\ NoIds
NewProject == NewProjectA /\ NoRef /\ NoIds
BringToFront == BringToFrontA /\ NoRef /\ NoIds
SendToBack == SendToBackA /\ NoRef /\ NoIds

Next ==
    \/ SelectWidget
    \/ CanvasClick
    \/ OnStart
    \/ OnDrag
    \/ OnRelease
    \/ DeleteSelected
    \/ Undo
    \/ Redo
    \/ ShowContextMenu
    \/ ContextDelete
    \/ EditProperties
    \/ UpdateProperty
    \/ CloseEditor
    \/ NewProject
    \/ BringToFront
    \/ SendToBack

Spec == Init /\ [][Next]_vars

\* ------------------------------------- the history against its reference
\* The reference history of the design keeps, for every command, its forward
\* effect: the widget created with its type and position, the widget deleted,
\* the position a move ends at.  g_undo and g_redo are its two stacks.
RefCmd(c) ==
    [kind |-> c.kind, dw |-> c.dw, type |-> dw'[c.dw].widget_type,
     x |-> dw'[c.dw].x, y |-> dw'[c.dw].y]

\* execute(command): the commands the step recorded, pushed; redo cleared
RefPushed ==
    LET n == Len(undo_stack') - Len(undo_stack)
    IN  IF n > 0
        THEN /\ g_undo' = g_undo \o [i \in 1..n |-> RefCmd(undo_stack'[Len(undo_stack) + i])]
             /\ g_redo' = <<>>
        ELSE UNCHANGED <<g_undo, g_redo>>

RefUndone ==
    IF g_undo = <<>> THEN UNCHANGED <<g_undo, g_redo>>
    ELSE g_undo' = Front(g_undo) /\ g_redo' = Append(g_redo, Last(g_undo))

RefRedone ==
    IF g_redo = <<>> THEN UNCHANGED <<g_undo, g_redo>>
    ELSE g_redo' = Front(g_redo) /\ g_undo' = Append(g_undo, Last(g_redo))

\* the forward effect of one command on a document
RefApply(doc, c) ==
    IF c.kind = "create"
    THEN Append(doc, [dw |-> c.dw, type |-> c.type, x |-> c.x, y |-> c.y])
    ELSE IF c.kind = "delete"
    THEN SelectSeq(doc, LAMBDA e : e.dw # c.dw)
    ELSE [i \in 1..Len(doc) |->
            IF doc[i].dw = c.dw THEN [doc[i] EXCEPT !.x = c.x, !.y = c.y] ELSE doc[i]]

RECURSIVE RefReplay(_, _)
RefReplay(doc, cmds) ==
    IF cmds = <<>> THEN doc ELSE RefReplay(RefApply(doc, Head(cmds)), Tail(cmds))

\* the document: the widgets in order, each with its type and position
Doc(s) ==
    [i \in 1..Len(s.widgets) |->
        [type |-> s.dw[s.widgets[i]].widget_type,
         x |-> s.dw[s.widgets[i]].x, y |-> s.dw[s.widgets[i]].y]]

RefDoc ==
    LET doc == RefReplay(<<>>, g_undo)
    IN  [i \in 1..Len(doc) |-> [type |-> doc[i].type, x |-> doc[i].x, y |-> doc[i].y]]

\* place, drag, delete-selected, undo and redo, one event at a time
CmdSelectWidget == SelectWidgetA(ToolboxTypes2) /\ NoRef /\ NoIds
CmdCanvasClick == CanvasClickA(PlaceCoords2) /\ RefPushed /\ NoIds
CmdOnStart == OnStartA(PressCoords) /\ NoRef /\ NoIds
CmdOnDrag == OnDragA(MoveCoords, MaxX, MaxY) /\ NoRef /\ NoIds
CmdOnRelease == OnReleaseA /\ RefPushed /\ NoIds
CmdDeleteSelected == drag.w = None /\ DeleteSelectedA /\ RefPushed /\ NoIds
CmdUndo == drag.w = None /\ UndoA(MaxX, MaxY) /\ RefUndone /\ NoIds
CmdRedo == drag.w = None /\ RedoA(MaxX, MaxY) /\ RefRedone /\ NoIds

NextCmd ==
    \/ CmdSelectWidget
    \/ CmdCanvasClick
    \/ CmdOnStart
    \/ CmdOnDrag
    \/ CmdOnRelease
    \/ CmdDeleteSelected
    \/ CmdUndo
    \/ CmdRedo

SpecCmd == Init /\ [][NextCmd]_vars

\* ------------------------------------------- one widget and its editor
EdSelectWidget == SelectWidgetA(ToolboxTypes) /\ NoRef /\ NoIds
EdCanvasClick == widgets = <<>> /\ CanvasClickA(PlaceCoords2) /\ NoRef /\ NoIds
EdOnStart == OnStartA(PressCoords) /\ NoRef /\ NoIds
EdOnDrag == OnDragA(MoveCoords, MaxX, MaxY) /\ NoRef /\ NoIds
EdOnRelease == OnReleaseA /\ NoRef /\ NoIds
EdDeleteSelected == DeleteSelectedA /\ NoRef /\ NoIds
EdUndo == UndoA(MaxX, MaxY) /\ NoRef /\ NoIds
EdRedo == RedoA(MaxX, MaxY) /\ NoRef /\ NoIds
EdEditProperties == EditPropertiesA /\ NoRef /\ NoIds
EdUpdateProperty == UpdatePropertyA(PropEdits2, MaxX, MaxY) /\ NoRef /\ NoIds
EdCloseEditor == CloseEditorA /\ NoRef /\ NoIds

NextEdit ==
    \/ EdSelectWidget
    \/ EdCanvasClick
    \/ EdOnStart
    \/ EdOnDrag
    \/ EdOnRelease
    \/ EdDeleteSelected
    \/ EdUndo
    \/ EdRedo
    \/ EdEditProperties
    \/ EdUpdateProperty
    \/ EdCloseEditor

SpecEdit == Init /\ [][NextEdit]_vars

\* ------------------------------------------- a button and a label, dragged
\* raw canvas coordinates of the two placing clicks
ScenPlaceCoords == {<<23, 57>>, <<100, 100>>}
\* the pointer goes down at (5, 3) in the widget and moves by (+5, +3) and
\* then to (+45, +3) from there
ScenPress == <<5, 3>>
ScenMove1 == <<10, 6>>
ScenMove2 == <<50, 6>>

ScSelectWidget == SelectWidgetA(ToolboxTypes2) /\ NoRef /\ NoIds
ScCanvasClick == CanvasClickA(ScenPlaceCoords) /\ NoRef /\ NoIds
ScOnStart == OnStartA({ScenPress}) /\ NoRef /\ NoIds
ScOnDrag == OnDragA({ScenMove1, ScenMove2}, MaxScen, MaxScen) /\ NoRef /\ NoIds
ScOnRelease == OnReleaseA /\ NoRef /\ NoIds
ScDeleteSelected == DeleteSelectedA /\ NoRef /\ NoIds
ScUndo == UndoA(MaxScen, MaxScen) /\ NoRef /\ NoIds
ScRedo == RedoA(MaxScen, MaxScen) /\ NoRef /\ NoIds

NextScen ==
    \/ ScSelectWidget
    \/ ScCanvasClick
    \/ ScOnStart
    \/ ScOnDrag
    \/ ScOnRelease
    \/ ScDeleteSelected
    \/ ScUndo
    \/ ScRedo

SpecScen == Init /\ [][NextScen]_vars

\* --------------------------------------------------------- canvas item ids
\* the canvas's item ids: each DraggableWidget's id and the last id handed out
Cv == [id |-> item_id, last |-> last_item]

\* fault: create_window embeds a destroyed window, and dw.id is assigned the
\* new item's id
create_window_id_destroyed(cv, o, alive) ==
    [id |-> [cv.id EXCEPT ![o] = cv.last + 1], last |-> cv.last + 1]

\* dw.id = canvas.create_window(..., window=dw.widget): a new item has the
\* next id of the canvas; for a destroyed window the call raises and dw.id is
\* not assigned
create_window_id(cv, o, alive) ==
    IF alive
    THEN [id |-> [cv.id EXCEPT ![o] = cv.last + 1], last |-> cv.last + 1]
    ELSE cv

\* place_widget: DraggableWidget.__init__ creates the item of the new widget
place_widget_ids(s, cv) ==
    IF s.active_widget \in SUPPORTED_WIDGETS
    THEN create_window_id(cv, NewObj(s), TRUE)
    ELSE cv

\* undo of a delete creates the item again
undo_ids(s, cv) ==
    IF s.undo_stack # <<>> /\ Last(s.undo_stack).kind = "delete"
    THEN create_window_id(cv, Last(s.undo_stack).dw, s.dw[Last(s.undo_stack).dw].alive)
    ELSE cv

\* redo of a create creates the item again
redo_ids(s, cv) ==
    IF s.redo_stack # <<>> /\ Last(s.redo_stack).kind = "create"
    THEN create_window_id(cv, Last(s.redo_stack).dw, s.dw[Last(s.redo_stack).dw].alive)
    ELSE cv

\* the ids after a step; an object nothing refers to any more has none
IdStep(cv) ==
    /\ item_id' = [o \in ObjIds |-> IF o \in Refs(St)' THEN cv.id[o] ELSE 0]
    /\ last_item' = cv.last

IdPlace == <<20, 20>>

IdSelectWidget == SelectWidgetA({"Button"}) /\ NoRef /\ IdStep(Cv)
IdCanvasClick ==
    /\ last_item < MaxItems
    /\ CanvasClickA({IdPlace})
    /\ NoRef
    /\ IdStep(IF active_widget # "None" THEN place_widget_ids(St, Cv) ELSE Cv)
IdOnStart == OnStartA(PressCoords) /\ NoRef /\ IdStep(Cv)
IdOnRelease == OnReleaseA /\ NoRef /\ IdStep(Cv)
IdDeleteSelected == DeleteSelectedA /\ NoRef /\ IdStep(Cv)
IdContextDelete == ContextDeleteA /\ NoRef /\ IdStep(Cv)
IdUndo == UndoA(MaxX, MaxY) /\ NoRef /\ IdStep(undo_ids(St, Cv))
IdRedo == RedoA(MaxX, MaxY) /\ NoRef /\ IdStep(redo_ids(St, Cv))
IdNewProject == NewProjectA /\ NoRef /\ IdStep(Cv)

NextId ==
    \/ IdSelectWidget
    \/ IdCanvasClick
    \/ IdOnStart
    \/ IdOnRelease
    \/ IdDeleteSelected
    \/ IdContextDelete
    \/ IdUndo
    \/ IdRedo
    \/ IdNewProject

SpecId == Init /\ [][NextId]_vars

\* ------------------------------------------------------- files and export
\* a Button, with a type generate_python_code has no branch for
\* export_python, the dialog answering path: the generated source is written
\* to the file, or the error is shown; no field of the GUIBuilder is assigned
export_python(s, path) == s

\* File > Export Python...
ExportPythonA(paths) ==
    \E path \in paths :
        /\ drag.w = None
        /\ Becomes(export_python(St, path), drag)

ToolboxTypes3 == {"Button", "Text"}

\* what the file dialogs answer
Paths == {"None", "a.json"}

\* layout files found on disk: a well-formed one, one with a record of a
\* type that is not supported, one without "widgets", one with a record
\* without "x"
GoodFile ==
    [parsed |-> TRUE, keys |-> {"version", "widgets"},
     widgets |-> <<WidgetData("Button", 23, 17, <<"O", "K">>),
                   WidgetData("Text", 8, 3, <<>>)>>]

UnknownTypeFile ==
    [parsed |-> TRUE, keys |-> {"version", "widgets"},
     widgets |-> <<WidgetData("Button", 20, 20, <<"G", "o">>),
                   WidgetData("Bogus", 0, 0, <<"X">>)>>]

NoWidgetsFile == [parsed |-> TRUE, keys |-> {"version"}, widgets |-> <<>>]

NoXFile ==
    [parsed |-> TRUE, keys |-> {"version", "widgets"},
     widgets |-> <<WidgetData("Button", 20, 0, <<"G", "o">>),
                   [WidgetData("Label", 0, 0, <<"H", "i">>)
                       EXCEPT !.keys = {"type", "y", "properties"}]>>]

Files == {GoodFile, UnknownTypeFile, NoWidgetsFile, NoXFile, NoFile}

FSelectWidget == SelectWidgetA(ToolboxTypes3) /\ NoRef /\ NoIds
FCanvasClick == CanvasClickA(PlaceCoords) /\ NoRef /\ NoIds
FOnStart == OnStartA(PressCoords) /\ NoRef /\ NoIds
FOnRelease == OnReleaseA /\ NoRef /\ NoIds
FDeleteSelected == DeleteSelectedA /\ NoRef /\ NoIds
FContextDelete == ContextDeleteA /\ NoRef /\ NoIds
FUndo == UndoA(MaxX, MaxY) /\ NoRef /\ NoIds
FRedo == RedoA(MaxX, MaxY) /\ NoRef /\ NoIds
FNewProject == NewProjectA /\ NoRef /\ NoIds
FOpenProject == OpenProjectA(Paths, Files, MaxX, MaxY) /\ NoRef /\ NoIds
FSaveProject == SaveProjectA(Paths) /\ NoRef /\ NoIds
FExportPython == ExportPythonA(Paths) /\ NoRef /\ NoIds

NextFile ==
    \/ FSelectWidget
    \/ FCanvasClick
    \/ FOnStart
    \/ FOnRelease
    \/ FDeleteSelected
    \/ FContextDelete
    \/ FUndo
    \/ FRedo
    \/ FNewProject
    \/ FOpenProject
    \/ FSaveProject
    \/ FExportPython

SpecFile == Init /\ [][NextFile]_vars

\* ------------------------------------ history across new project and load
HSelectWidget == SelectWidgetA(ToolboxTypes) /\ NoRef /\ NoIds
HCanvasClick == CanvasClickA(PlaceCoords) /\ NoRef /\ NoIds
HOnStart == OnStartA(PressCoords) /\ NoRef /\ NoIds
HOnDrag == OnDragA(MoveCoords, MaxX, MaxY) /\ NoRef /\ NoIds
HOnRelease == OnReleaseA /\ NoRef /\ NoIds
HDeleteSelected == DeleteSelectedA /\ NoRef /\ NoIds
HUndo == UndoA(MaxX, MaxY) /\ NoRef /\ NoIds
HRedo == RedoA(MaxX, MaxY) /\ NoRef /\ NoIds
HNewProject == NewProjectA /\ NoRef /\ NoIds
HOpenProject == OpenProjectA(Paths, Files, MaxX, MaxY) /\ NoRef /\ NoIds

NextHist ==
    \/ HSelectWidget
    \/ HCanvasClick
    \/ HOnStart
    \/ HOnDrag
    \/ HOnRelease
    \/ HDeleteSelected
    \/ HUndo
    \/ HRedo
    \/ HNewProject
    \/ HOpenProject

SpecHist == Init /\ [][NextHist]_vars

\* ------------------------------------------------- the grid snap alone
\* the raw coordinates, left and right of the origin, ties included
SnapArgs == (0 - MaxV)..MaxV

InitSnap ==
    /\ InitP
    /\ g_undo = <<>>
    /\ g_redo = <<>>
    /\ \E v \in SnapArgs : probe = [NoProbe EXCEPT !.arg = v]
    /\ disk = NoFile
    /\ item_id = [o \in ObjIds |-> 0]
    /\ last_item = 0

\* x = round(x / GRID_SIZE) * GRID_SIZE, and the same again on its result
SnapApply ==
    /\ ~probe.applied
    /\ probe' = [probe EXCEPT !.applied = TRUE, !.out = snap(probe.arg),
                               !.again = snap(snap(probe.arg))]
    /\ UNCHANGED <<active_widget, widgets, current_file, undo_stack, redo_stack,
                   dw, editors, stacking, drag, g_undo, g_redo, disk,
                   item_id, last_item>>

NextSnap == SnapApply

SpecSnap == InitSnap /\ [][NextSnap]_vars

\* ------------------------------------------------------------ properties
TypeOK ==
    /\ active_widget \in SUPPORTED_WIDGETS \cup {"None"}
    /\ Range(widgets) \subseteq ObjIds
    /\ Len(undo_stack) <= MaxHist
    /\ editors \subseteq ObjIds
    /\ drag.w \in ObjIds \cup {None}
    /\ \A o \in ObjIds : dw[o].alive = dw[o].item
    /\ \A o \in ObjIds : dw[o].alive => o \in Range(widgets)
    /\ drag.w # None => dw[drag.w].alive

\* C1: after any sequence of place, drag, delete-selected, undo and redo
\* events (no drag in progress), the document equals the document obtained by
\* applying, in order, only the net-active commands.
C1_NetActive == drag.w = None => Doc(St) = RefDoc

\* the widgets of the document that are selected, in document order
Selected(s) == SelectSeq(s.widgets, LAMBDA o : s.dw[o].selected)

\* the identities of the commands on a stack
Idents(q) == {q[i].ident : i \in 1..Len(q)}

\* C2: undo() and then immediately redo() leaves the document exactly as it
\* was before the undo(), whatever the kind of the command on top of
\* undo_stack; after a drag from `from` to `to` the widget is at `to` again.
C2_UndoRedoIdentity == undo_stack # <<>> => Doc(redo(undo(St))) = Doc(St)

\* C3: deleting the selected widget and then calling undo() puts that widget
\* back into the document with the position, the type and the properties
\* (here its text) it had immediately before the deletion.
C3_DeleteUndoRestores ==
    \A o \in Range(widgets) :
        (drag.w = None /\ Selected(St) = <<o>> /\ dw[o].alive) =>
            LET s2 == undo(delete_selected(St))
            IN  /\ o \in Range(s2.widgets)
                /\ s2.dw[o].x = dw[o].x
                /\ s2.dw[o].y = dw[o].y
                /\ s2.dw[o].widget_type = dw[o].widget_type
                /\ s2.dw[o].text = dw[o].text

\* what C4 asks of the state s1 a new command of kind k on widget o leaves
Recorded(s1, k, o) ==
    /\ s1.redo_stack = <<>>
    /\ s1.undo_stack # <<>>
    /\ Last(s1.undo_stack).kind = k
    /\ Last(s1.undo_stack).dw = o
    /\ redo(s1) = s1

\* C4: every new command recorded through push_undo (a place, a pointer-up of
\* a drag that changed the position, a delete of the selection) leaves
\* redo_stack empty and the new command on top of undo_stack, the commands
\* below it unchanged; redo() right after it is a no-op.
C4_NewCommandClearsRedo ==
    /\ \A c \in PlaceCoords :
         (active_widget # "None" /\ FreeObjs(St) # {}) =>
             LET s1 == canvas_click(St, c[1], c[2])
             IN  /\ Recorded(s1, "create", Last(s1.widgets))
                 /\ Front(s1.undo_stack) = undo_stack
    /\ (drag.w # None /\ <<dw[drag.w].x, dw[drag.w].y>> # <<drag.px, drag.py>>) =>
             LET s1 == on_release(St, drag.w)
             IN  /\ Recorded(s1, "move", drag.w)
                 /\ Front(s1.undo_stack) = undo_stack
    /\ Selected(St) # <<>> =>
             LET s1 == delete_selected(St)
             IN  /\ Recorded(s1, "delete", Last(Selected(St)))
                 /\ SubSeq(s1.undo_stack, 1, Len(undo_stack)) = undo_stack
                 /\ Len(s1.undo_stack) = Len(undo_stack) + Len(Selected(St))

\* a state with commands to redo in which a place is about to record a new
\* command, and does empty redo_stack
C4_Witness ==
    /\ redo_stack # <<>>
    /\ active_widget # "None"
    /\ FreeObjs(St) # {}
    /\ \E c \in PlaceCoords :
         /\ canvas_click(St, c[1], c[2]).redo_stack = <<>>
         /\ Len(canvas_click(St, c[1], c[2]).undo_stack) = Len(undo_stack) + 1

\* C5: no command is in both undo_stack and redo_stack; undo() moves exactly
\* the top command of undo_stack to the top of redo_stack and redo() moves
\* exactly the top command of redo_stack to the top of undo_stack, so the sum
\* of the two lengths is unchanged by either.
C5_StacksPartition ==
    /\ Idents(undo_stack) \cap Idents(redo_stack) = {}
    /\ undo_stack # <<>> =>
         LET s1 == undo(St)
         IN  /\ s1.undo_stack = Front(undo_stack)
             /\ s1.redo_stack = Append(redo_stack, Last(undo_stack))
             /\ Len(s1.undo_stack) + Len(s1.redo_stack) = Len(undo_stack) + Len(redo_stack)
             /\ Idents(s1.undo_stack) \cap Idents(s1.redo_stack) = {}
    /\ redo_stack # <<>> =>
         LET s1 == redo(St)
         IN  /\ s1.redo_stack = Front(redo_stack)
             /\ s1.undo_stack = Append(undo_stack, Last(redo_stack))
             /\ Len(s1.undo_stack) + Len(s1.redo_stack) = Len(undo_stack) + Len(redo_stack)
             /\ Idents(s1.undo_stack) \cap Idents(s1.redo_stack) = {}

\* both stacks hold commands, two of them on undo_stack, and undo() has moved
\* one across
C5_Witness ==
    /\ Len(undo_stack) >= 2
    /\ redo_stack # <<>>
    /\ Len(undo(St).redo_stack) = Len(redo_stack) + 1

\* C6: undo() with undo_stack empty and redo() with redo_stack empty change
\* nothing: widgets, every widget's position and selection flag, undo_stack
\* and redo_stack are what they were.
C6_EmptyStackNoOp ==
    /\ undo_stack = <<>> => undo(St) = St
    /\ redo_stack = <<>> => redo(St) = St

\* undo() is called with nothing to undo while there are two commands to
\* redo and a widget armed, and leaves the commands to redo
C6_Witness ==
    /\ undo_stack = <<>>
    /\ Len(redo_stack) >= 2
    /\ active_widget # "None"
    /\ undo(St).redo_stack = redo_stack

C8_SingleSelection == Cardinality({o \in Range(widgets) : dw[o].selected}) <= 1

\* C9: between pointer-down and pointer-up a pointer-move records nothing in
\* undo_stack and leaves redo_stack alone; the pointer-up records exactly one
\* move command, carrying the widget's position at pointer-down, when the
\* widget is not at that position, and otherwise records nothing and leaves
\* redo_stack alone.
C9_DragOneEntry ==
    drag.w # None =>
        /\ \A c \in MoveCoords :
             LET s1 == on_drag(St, drag.w, c[1], c[2])
             IN  s1.undo_stack = undo_stack /\ s1.redo_stack = redo_stack
        /\ LET s1 == on_release(St, drag.w)
           IN  IF <<dw[drag.w].x, dw[drag.w].y>> # <<drag.px, drag.py>>
               THEN /\ Len(s1.undo_stack) = Len(undo_stack) + 1
                    /\ Front(s1.undo_stack) = undo_stack
                    /\ Last(s1.undo_stack).kind = "move"
                    /\ Last(s1.undo_stack).dw = drag.w
                    /\ Last(s1.undo_stack).old_x = drag.px
                    /\ Last(s1.undo_stack).old_y = drag.py
               ELSE s1.undo_stack = undo_stack /\ s1.redo_stack = redo_stack

\* a drag in progress has moved the widget off its pointer-down position while
\* there is a command to redo, and the pointer-up records one command
C9_Witness ==
    /\ drag.w # None
    /\ <<dw[drag.w].x, dw[drag.w].y>> # <<drag.px, drag.py>>
    /\ redo_stack # <<>>
    /\ Len(on_release(St, drag.w).undo_stack) = Len(undo_stack) + 1

\* C10: while dragging, a pointer-move leaves the widget at
\* snap(position at pointer-down + pointer now - pointer at pointer-down),
\* whatever pointer-moves came before it in the session.
C10_DragFromStart ==
    drag.w # None =>
        \A c \in MoveCoords :
            LET s1 == on_drag(St, drag.w, c[1], c[2])
            IN  <<s1.dw[drag.w].x, s1.dw[drag.w].y>> =
                    <<snap(drag.px + (c[1] - dw[drag.w].start_x)),
                      snap(drag.py + (c[2] - dw[drag.w].start_y))>>

\* C11: the grid snap is idempotent and grid-aligned: for every raw
\* coordinate v of the range, snap(snap(v)) = snap(v) and snap(v) is a multiple
\* of GRID_SIZE.
C11_SnapIdempotent ==
    probe.applied =>
        /\ probe.again = probe.out
        /\ probe.out % GRID_SIZE = 0

\* snap has been applied to a negative coordinate off the grid
C11_Witness ==
    /\ probe.applied
    /\ probe.arg < 0
    /\ probe.arg % GRID_SIZE # 0
    /\ probe.out # probe.arg

\* a file with a record whose type is not a supported one
HasUnknownType(data) ==
    /\ data.parsed
    /\ "widgets" \in data.keys
    /\ \E i \in 1..Len(data.widgets) :
         "type" \in data.widgets[i].keys /\ data.widgets[i].type \notin SUPPORTED_WIDGETS

\* a parsed file that is not a layout: no "widgets", or a record without
\* type, x or y
IsMalformed(data) ==
    /\ data.parsed
    /\ \/ "widgets" \notin data.keys
       \/ \E i \in 1..Len(data.widgets) :
            ~({"type", "x", "y"} \subseteq data.widgets[i].keys)

\* C12: loading a file in which a record has a type that is not supported
\* fails the whole load: the load adds none of the file's widgets (the
\* document is left as it was, or is left empty).
C12_UnknownTypeFailsLoad ==
    \A data \in Files :
        HasUnknownType(data) =>
            LET s1 == open_project(St, "a.json", data)
            IN  s1 = St \/ s1.widgets = <<>>

\* C13: a load that fails on a malformed file or on an unknown type, issued
\* with a document open, leaves that document untouched: widgets (and each widget), undo_stack, redo_stack
\* and current_file are what they were before the load.
C13_FailedLoadUntouched ==
    \A data \in Files :
        (widgets # <<>> /\ (IsMalformed(data) \/ HasUnknownType(data))) =>
            LET s1 == open_project(St, "a.json", data)
            IN  /\ s1.widgets = widgets
                /\ \A o \in Range(widgets) : s1.dw[o] = dw[o]
                /\ s1.undo_stack = undo_stack
                /\ s1.redo_stack = redo_stack
                /\ s1.current_file = current_file

\* the program right after construction: an empty document
Fresh ==
    [active_widget |-> "None", widgets |-> <<>>, current_file |-> "None",
     undo_stack |-> <<>>, redo_stack |-> <<>>, dw |-> [o \in ObjIds |-> Blank],
     editors |-> {}, stacking |-> <<>>]

\* C14: saving the document and loading the file into an empty document
\* gives a document with the same number of widgets and, index by index, the
\* same type and the same (x, y).
C14_SaveLoadRoundTrip ==
    Doc(open_project(Fresh, "a.json", _save_to_file(St, NoFile))) = Doc(St)

\* C16: the source is generated and has, for every widget and in document
\* order, one construction statement immediately followed by the placement
\* statement with the widget's (x, y); no placement statement names a
\* variable without a construction statement.
C16_ConstructThenPlace ==
    /\ ~generate_python_code(St).raised
    /\  LET code == generate_python_code(St).code
            at(i) == CHOOSE k \in 1..Len(code) :
                        code[k].stmt = "place" /\ code[k].var = i - 1
        IN  /\ \A i \in 1..Len(widgets) :
                 /\ Cardinality({k \in 1..Len(code) : code[k].var = i - 1
                                    /\ code[k].stmt = "place"}) = 1
                 /\ Cardinality({k \in 1..Len(code) : code[k].var = i - 1
                                    /\ code[k].stmt = "construct"}) = 1
                 /\ code[at(i)] = Place(i - 1, dw[widgets[i]].x, dw[widgets[i]].y)
                 /\ at(i) > 1
                 /\ code[at(i) - 1].stmt = "construct"
                 /\ code[at(i) - 1].var = i - 1
            /\ \A i, j \in 1..Len(widgets) : i < j => at(i) < at(j)

\* the widgets of the document whose window is on the canvas, in document order
Painted(s) == SelectSeq(s.widgets, LAMBDA o : s.dw[o].alive /\ s.dw[o].item)

\* C15: Bring to Front moves the widget to the end of widgets and Send to
\* Back moves it to the start, and the order of the document (the order save
\* writes) is the stacking order of the widgets' windows.
C15_ReorderMovesInDocument ==
    /\ Painted(St) = stacking
    /\ \A o \in Range(widgets) :
         (drag.w = None /\ Shown(o)) =>
            /\ bring_to_front(show_context_menu(St, o), o).widgets
                   = Append(Remove(widgets, o), o)
            /\ send_to_back(show_context_menu(St, o), o).widgets
                   = <<o>> \o Remove(widgets, o)

\* the session of C17 is about to start: a button stored at (20, 60) and a
\* label at (100, 100) have just been placed, in this order
ButtonAndLabelPlaced ==
    /\ drag.w = None
    /\ Len(widgets) = 2
    /\ dw[widgets[1]].widget_type = "Button" /\ dw[widgets[2]].widget_type = "Label"
    /\ <<dw[widgets[1]].x, dw[widgets[1]].y>> = <<20, 60>>
    /\ <<dw[widgets[2]].x, dw[widgets[2]].y>> = <<100, 100>>
    /\ \A o \in Range(widgets) : dw[o].alive /\ ~dw[o].selected
    /\ Len(undo_stack) = 2
    /\ redo_stack = <<>>

\* C17: a button placed at raw (23, 57) is stored at (20, 60); with a label at
\* (100, 100): pointer-down on the button, pointer-moves at offsets (+5, +3)
\* and (+45, +3), pointer-up leave the button at (60, 60) and one move entry
\* from (20, 60); undo puts it back at (20, 60), the document as before the
\* drag; selecting and deleting the label leaves the button alone in widgets;
\* undo restores the label at (100, 100); redo removes it again.
C17_ButtonLabelSession ==
    /\ (active_widget = "Button" /\ FreeObjs(St) # {}) =>
          LET s1 == canvas_click(St, 23, 57)
          IN  <<s1.dw[Last(s1.widgets)].x, s1.dw[Last(s1.widgets)].y>> = <<20, 60>>
    /\ ButtonAndLabelPlaced =>
          LET b == widgets[1]
              l == widgets[2]
              s1 == on_start(St, b, ScenPress[1], ScenPress[2])
              s2 == on_drag(s1, b, ScenMove1[1], ScenMove1[2])
              s3 == on_drag(s2, b, ScenMove2[1], ScenMove2[2])
              s4 == on_release(s3, b)
              s5 == undo(s4)
              s6 == on_release(on_start(s5, l, ScenPress[1], ScenPress[2]), l)
              s7 == delete_selected(s6)
              s8 == undo(s7)
              s9 == redo(s8)
          IN  /\ <<s4.dw[b].x, s4.dw[b].y>> = <<60, 60>>
              /\ Len(s4.undo_stack) = Len(undo_stack) + 1
              /\ Last(s4.undo_stack).kind = "move"
              /\ <<Last(s4.undo_stack).old_x, Last(s4.undo_stack).old_y>> = <<20, 60>>
              /\ <<s5.dw[b].x, s5.dw[b].y>> = <<20, 60>>
              /\ Doc(s5) = Doc(St)
              /\ s7.widgets = <<b>>
              /\ l \in Range(s8.widgets)
              /\ <<s8.dw[l].x, s8.dw[l].y>> = <<100, 100>>
              /\ l \notin Range(s9.widgets)

\* C18: every delete of a widget present in the document, through
\* delete-selected or through the widget's context-menu Delete, removes the
\* widget from widgets, and the deleted widget is not in the selection after it.
C18_DeleteRemovesFromDocument ==
    drag.w = None =>
       /\ \A o \in Range(Selected(St)) :
             /\ o \notin Range(delete_selected(St).widgets)
             /\ o \notin Range(Selected(delete_selected(St)))
       /\ \A o \in Range(widgets) :
             Shown(o) =>
                /\ o \notin Range(delete(show_context_menu(St, o), o).widgets)
                /\ o \notin Range(Selected(delete(show_context_menu(St, o), o)))

\* C19: widget ids are stable and unique: no two entries of widgets have the
\* same id, no entry of widgets occurs twice, and a widget keeps its id as
\* long as anything refers to it, so that a widget restored by undo of a
\* delete or by redo of a create has the id it had before it was removed.
C19_IdsStableUnique ==
    [][/\ \A i, j \in 1..Len(widgets') :
             i # j => /\ widgets'[i] # widgets'[j]
                      /\ item_id'[widgets'[i]] # item_id'[widgets'[j]]
       /\ \A o \in Range(widgets') : item_id'[o] # 0
       /\ \A o \in ObjIds :
             (item_id[o] # 0 /\ o \in Refs(St)') => item_id'[o] = item_id[o]
      ]_vars

\* a deleted widget is back in widgets after undo, beside another widget
C19_Witness ==
    /\ Len(widgets) = 2
    /\ redo_stack # <<>>
    /\ Last(redo_stack).kind = "delete"
    /\ Last(redo_stack).dw \in Range(widgets)
    /\ item_id[Last(redo_stack).dw] # 0

C21_UndoDeleteKeepsOrder ==
    (drag.w = None /\ Len(widgets) >= 2 /\ Len(Selected(St)) = 1) =>
        undo(delete_selected(St)).widgets = widgets

\* C22: a click at raw (x, y) with a supported type armed appends exactly one
\* new widget as the last entry of widgets, at (snap(x), snap(y)), pushes
\* exactly one create entry, leaves every other widget's position and the
\* order of widgets as they were, and disarms the type; a click with no type
\* armed changes nothing.
C22_PlaceAppendsOne ==
    \A c \in PlaceCoords2 :
       LET s1 == canvas_click(St, c[1], c[2])
       IN  IF active_widget = "None"
           THEN s1 = St
           ELSE FreeObjs(St) # {} =>
                  LET o == Last(s1.widgets)
                  IN  /\ Len(s1.widgets) = Len(widgets) + 1
                      /\ Front(s1.widgets) = widgets
                      /\ o \notin Range(widgets)
                      /\ s1.dw[o].widget_type = active_widget
                      /\ <<s1.dw[o].x, s1.dw[o].y>> = <<snap(c[1]), snap(c[2])>>
                      /\ <<s1.dw[o].cx, s1.dw[o].cy>> = <<snap(c[1]), snap(c[2])>>
                      /\ Len(s1.undo_stack) = Len(undo_stack) + 1
                      /\ Front(s1.undo_stack) = undo_stack
                      /\ Last(s1.undo_stack).kind = "create"
                      /\ Last(s1.undo_stack).dw = o
                      /\ \A p \in ObjIds \ {o} : s1.dw[p] = dw[p]
                      /\ s1.active_widget = "None"

\* a type is armed in a document that has a widget already, and the click at
\* (23, 17) adds a second one at (20, 20)
C22_Witness ==
    /\ active_widget \in SUPPORTED_WIDGETS
    /\ widgets # <<>>
    /\ FreeObjs(St) # {}
    /\ Len(canvas_click(St, 23, 17).widgets) = Len(widgets) + 1
    /\ canvas_click(St, 23, 17).dw[Last(canvas_click(St, 23, 17).widgets)].x = 20

\* C23: a load whose file cannot be read or parsed leaves widgets, undo_stack,
\* redo_stack and current_file as they were; save and export, succeeding or
\* failing, never change widgets, any widget's position, undo_stack or
\* redo_stack.
C23_IOLeavesDocument ==
    drag.w = None =>
       \A path \in Paths :
          /\ LET s1 == open_project(St, path, NoFile)
             IN  /\ s1.widgets = widgets /\ s1.dw = dw
                 /\ s1.undo_stack = undo_stack /\ s1.redo_stack = redo_stack
                 /\ s1.current_file = current_file
          /\ LET s1 == save_project(St, path)
             IN  /\ s1.widgets = widgets /\ s1.dw = dw
                 /\ s1.undo_stack = undo_stack /\ s1.redo_stack = redo_stack
          /\ LET s1 == export_python(St, path)
             IN  /\ s1.widgets = widgets /\ s1.dw = dw
                 /\ s1.undo_stack = undo_stack /\ s1.redo_stack = redo_stack

\* a document with a widget, a command to redo and a file name, in which a
\* save fails because a widget of the list is destroyed
C23_Witness ==
    /\ drag.w = None
    /\ widgets # <<>>
    /\ redo_stack # <<>>
    /\ current_file # "None"
    /\ save_raises(St)
    /\ open_project(St, "a.json", NoFile) = St

\* C24: every entry of widgets refers to a live toolkit widget: after any
\* sequence of place, delete, undo and redo no entry of widgets is a widget
\* whose toolkit object was destroyed by an earlier delete or undo of a create.
C24_WidgetsAlive == \A o \in Range(widgets) : dw[o].alive

\* the recorded position of every widget of s that has a canvas item is the
\* position of that item
AtItem(s) ==
    \A o \in Range(s.widgets) :
        s.dw[o].item => <<s.dw[o].x, s.dw[o].y>> = <<s.dw[o].cx, s.dw[o].cy>>

\* C25: in every reachable state each widget's recorded position (dw.x, dw.y)
\* is the position of its item on the canvas, for any sequence of drags, undos
\* and redos, two consecutive undos followed by two redos included.
C25_PositionMatchesItem ==
    /\ AtItem(St)
    /\ drag.w = None => AtItem(redo(redo(undo(undo(St)))))

\* how often o occurs in the sequence q
Count(q, o) == Cardinality({i \in 1..Len(q) : q[i] = o})

\* C26: whenever undo() or redo() removes a widget from widgets (undo of a
\* create, redo of a delete) the widget is in widgets exactly once, and
\* whenever undo() or redo() appends a widget (undo of a delete, redo of a
\* create) the widget is not in widgets; after any sequence of place, drag,
\* delete-selected, undo, redo, new-project and load.
C26_RemovePresentAppendAbsent ==
    /\ undo_stack # <<>> =>
          LET a == Last(undo_stack)
          IN  /\ a.kind = "create" => Count(widgets, a.dw) = 1
              /\ a.kind = "delete" => Count(widgets, a.dw) = 0
    /\ redo_stack # <<>> =>
          LET a == Last(redo_stack)
          IN  /\ a.kind = "delete" => Count(widgets, a.dw) = 1
              /\ a.kind = "create" => Count(widgets, a.dw) = 0

\* after a load: a loaded widget was deleted and the delete undone, so that
\* redo is about to remove it from the two widgets of the document again
C26_Witness ==
    /\ current_file # "None"
    /\ Len(widgets) = 2
    /\ redo_stack # <<>>
    /\ Last(redo_stack).kind = "delete"
    /\ Len(redo(St).widgets) = 1

\* C27: during a load the properties of a record of the file are applied only
\* to the widget created from that record: no record changes a widget that
\* was created from an earlier record.
C27_PropertiesToOwnWidget ==
    drag.w = None =>
       \A data \in Files :
          (data.parsed /\ "widgets" \in data.keys) =>
             \A i \in 1..Len(data.widgets) :
                (\A j \in 1..i : {"type", "x", "y"} \subseteq data.widgets[j].keys) =>
                   LET cleared == [clear_canvas(St) EXCEPT !.current_file = "a.json"]
                       before == load_each(cleared, SubSeq(data.widgets, 1, i - 1))
                       after == load_widget(before, data.widgets[i])
                   IN  \A o \in Range(before.widgets) : after.dw[o] = before.dw[o]

\* C28: a confirmed new project, and the clear at the start of a successful
\* load, leave widgets, undo_stack and redo_stack empty, so that no command of
\* the previous document can be undone or redone into the new one; a new
\* project declined at the prompt leaves widgets, both stacks and
\* current_file as they were.
C28_NewProjectClearsHistory ==
    drag.w = None =>
       /\ LET s1 == new_project(St, TRUE)
          IN  /\ s1.widgets = <<>> /\ s1.undo_stack = <<>> /\ s1.redo_stack = <<>>
              /\ s1.current_file = "None"
              /\ undo(s1) = s1 /\ redo(s1) = s1
       /\ LET s1 == clear_canvas(St)
          IN  s1.widgets = <<>> /\ s1.undo_stack = <<>> /\ s1.redo_stack = <<>>
       /\ \A data \in Files :
             data.parsed =>
                LET s1 == open_project(St, "a.json", data)
                IN  /\ s1.redo_stack = <<>>
                    /\ Len(s1.undo_stack) = Len(s1.widgets)
                    /\ \A k \in 1..Len(s1.undo_stack) :
                          /\ s1.undo_stack[k].kind = "create"
                          /\ s1.undo_stack[k].dw = s1.widgets[k]
                    /\ redo(s1) = s1
       /\ widgets # <<>> =>
             LET s1 == new_project(St, FALSE)
             IN  /\ s1.widgets = widgets /\ s1.dw = dw
                 /\ s1.undo_stack = undo_stack /\ s1.redo_stack = redo_stack
                 /\ s1.current_file = current_file

\* a loaded document with a widget, a command to undo and a command to redo,
\* which a confirmed new project empties
C28_Witness ==
    /\ drag.w = None
    /\ widgets # <<>>
    /\ undo_stack # <<>>
    /\ redo_stack # <<>>
    /\ current_file # "None"
    /\ new_project(St, TRUE).redo_stack = <<>>
    /\ new_project(St, FALSE) = St

====
